---- MODULE Spec2Model ----
(***************************************************************************)
(* Multi-provider LLM streaming gateway with usage metering.               *)
(*                                                                         *)
(*   lib/llm/types.ts      model registry, calculateCost                   *)
(*   lib/llm/openai.ts     OpenAI adapter                                  *)
(*   lib/llm/gemini.ts     Gemini adapter                                  *)
(*   lib/llm/index.ts      streamChat / generateChat dispatcher            *)
(*   lib/logger.ts         structured logger                               *)
(*   lib/cost-tracker.ts   CostTracker (shared costTracker instance)       *)
(*   app/api/chat/stream   POST route                                      *)
(*                                                                         *)
(* Money is counted in units of 25 nano-USD (2.5e-8 USD): a registry price *)
(* of p USD per 1K tokens is the whole number p / 0.000025 of units per    *)
(* token, and (in * pin + out * pout) / 1000 USD is in * PIN + out * POUT  *)
(* units.  One USD is 40 000 000 units.                                    *)
(***************************************************************************)
EXTENDS Integers, Sequences, FiniteSets, Bags, TLC

\* JavaScript undefined / null, and the empty string (both falsy).
NULL == "undefined"
EMPTY == ""

\* ------------------------------------------------------------------------
\* Bounds of the model
\* ------------------------------------------------------------------------
\* number of chat requests the route serves in one run
MaxReq == 2
\* the longest pathname, in pieces
MaxPathLen == 4
\* the calls made on one Logger
MaxCalls == 2
\* length of a local day in clock instants
DayLength == 2

Requests == 1..MaxReq

\* ------------------------------------------------------------------------
\* lib/llm/types.ts
\* ------------------------------------------------------------------------
LLMProviders == {"openai", "gemini"}

RegistryModels ==
    {"gpt-4o", "gpt-4o-mini", "gpt-4-turbo", "gpt-4", "gpt-3.5-turbo",
     "gemini-1.5-pro", "gemini-1.5-flash", "gemini-1.0-pro"}

\* MODEL_PRICING, units per token (= USD per 1K tokens / 0.000025)
MODEL_PRICING(model) ==
    CASE model = "gpt-4o"           -> [input |-> 100,  output |-> 400]
      [] model = "gpt-4o-mini"      -> [input |-> 6,    output |-> 24]
      [] model = "gpt-4-turbo"      -> [input |-> 400,  output |-> 1200]
      [] model = "gpt-4"            -> [input |-> 1200, output |-> 2400]
      [] model = "gpt-3.5-turbo"    -> [input |-> 20,   output |-> 60]
      [] model = "gemini-1.5-pro"   -> [input |-> 50,   output |-> 200]
      [] model = "gemini-1.5-flash" -> [input |-> 3,    output |-> 12]
      [] model = "gemini-1.0-pro"   -> [input |-> 20,   output |-> 60]

\* MODEL_PRICING, and the byProvider / byModel maps of getSummary, are object
\* literals: a key they do not own reads what Object.prototype has under
\* that name, which for these names is a function or an object (truthy).
InheritedKeys == {"constructor", "toString", "__proto__"}

\* the number NaN; no cost and no count is negative, and NaN >= 0 is false
NaN == -1

\* calculateCost(model, usage), in units.  For an inherited key pricing is
\* truthy, pricing.input and pricing.output are undefined, and every
\* product, the sum and the quotient are NaN.
calculateCost(model, usage) ==
    IF model \in InheritedKeys
    THEN NaN
    ELSE IF model \notin RegistryModels
    THEN usage.inputTokens * 6 + usage.outputTokens * 24
    ELSE usage.inputTokens * MODEL_PRICING(model).input
         + usage.outputTokens * MODEL_PRICING(model).output

\* DEFAULT_MODELS naming a Gemini model the registry has no price for
DEFAULT_MODELS_Unpriced(provider) ==
    CASE provider = "openai" -> "gpt-4o-mini"
      [] provider = "gemini" -> "gemini-2.0-flash"
      [] OTHER               -> NULL

\* DEFAULT_MODELS[provider]; a key that is no provider reads undefined
DEFAULT_MODELS(provider) ==
    CASE provider = "openai" -> "gpt-4o-mini"
      [] provider = "gemini" -> "gemini-1.5-flash"
      [] OTHER               -> NULL

ZeroUsage == [inputTokens |-> 0, outputTokens |-> 0, totalTokens |-> 0]

\* ------------------------------------------------------------------------
\* JavaScript truthiness of an optional string, and a || b
\* ------------------------------------------------------------------------
Truthy(s) == s # NULL /\ s # EMPTY

Or(a, b) == IF Truthy(a) THEN a ELSE b

\* ------------------------------------------------------------------------
\* lib/llm/openai.ts, lib/llm/gemini.ts: what the adapter closes over and
\* what its response future resolves to
\* ------------------------------------------------------------------------
\* onFinish: vendor usage field names -> LLMUsage
ConvertUsage(usage) ==
    [inputTokens  |-> usage.promptTokens,
     outputTokens |-> usage.completionTokens,
     totalTokens  |-> usage.totalTokens]

\* onFinish({text, usage}): finalUsage is replaced only when usage is given
onFinish(finalUsage, hasUsage, usage) ==
    IF hasUsage THEN ConvertUsage(usage) ELSE finalUsage

streamOpenAIChat(config) ==
    [adapter  |-> "openai",
     apiKey   |-> config.apiKey,
     model    |-> Or(config.model, "gpt-4o-mini"),
     provider |-> "openai"]

streamGeminiChat(config) ==
    [adapter  |-> "gemini",
     apiKey   |-> config.apiKey,
     model    |-> Or(config.model, "gemini-1.5-flash"),
     provider |-> "gemini"]

generateOpenAIChat(config) == streamOpenAIChat(config)

generateGeminiChat(config) == streamGeminiChat(config)

NoAdapter == [adapter |-> NULL, apiKey |-> NULL, model |-> NULL, provider |-> NULL]

\* ------------------------------------------------------------------------
\* lib/llm/index.ts
\* ------------------------------------------------------------------------
\* ResolveProvider with the environment default left out
ResolveProvider_IgnoresEnv(options) ==
    Or(options.provider, "openai")

ResolveProvider(options) ==
    Or(options.provider, Or(options.env.DEFAULT_LLM_PROVIDER, "openai"))

ResolveModel(options, provider) ==
    Or(options.model, DEFAULT_MODELS(provider))

\* ResolveApiKey falling back to whichever environment key is set
ResolveApiKey_AnyEnvKey(options, provider) ==
    Or(options.apiKey,
       IF provider = "openai"
       THEN Or(options.env.OPENAI_API_KEY, options.env.GEMINI_API_KEY)
       ELSE Or(options.env.GEMINI_API_KEY, options.env.OPENAI_API_KEY))

\* ResolveApiKey preferring the environment key to options.apiKey
ResolveApiKey_EnvFirst(options, provider) ==
    Or(IF provider = "openai" THEN options.env.OPENAI_API_KEY
                              ELSE options.env.GEMINI_API_KEY,
       options.apiKey)

ResolveApiKey(options, provider) ==
    Or(options.apiKey,
       IF provider = "openai" THEN options.env.OPENAI_API_KEY
                              ELSE options.env.GEMINI_API_KEY)

\* streamChat(options); setupOk: the adapter call does not throw.
\* kind "throw": the promise rejects; call is the adapter invocation made.
streamChat(options, setupOk) ==
    LET provider == ResolveProvider(options)
        model    == ResolveModel(options, provider)
        apiKey   == ResolveApiKey(options, provider)
        config   == [provider |-> provider, model |-> model, apiKey |-> apiKey]
        call     == IF provider = "openai" THEN streamOpenAIChat(config)
                                           ELSE streamGeminiChat(config)
    IN  IF ~Truthy(apiKey)
        THEN [kind |-> "throw", error |-> "API key not found",
              provider |-> provider, model |-> model, call |-> NoAdapter]
        ELSE IF ~setupOk
        THEN [kind |-> "throw", error |-> "adapter error",
              provider |-> provider, model |-> model, call |-> call]
        ELSE [kind |-> "ok", error |-> NULL,
              provider |-> provider, model |-> model, call |-> call]

\* generateChat(options); callOk: the vendor call succeeds.
\* On success the adapter's LLMResponse is returned as it is.
generateChat(options, callOk) ==
    LET provider == ResolveProvider(options)
        model    == ResolveModel(options, provider)
        apiKey   == ResolveApiKey(options, provider)
        config   == [provider |-> provider, model |-> model, apiKey |-> apiKey]
        call     == IF provider = "openai" THEN generateOpenAIChat(config)
                                           ELSE generateGeminiChat(config)
    IN  IF ~Truthy(apiKey)
        THEN [kind |-> "throw", error |-> "API key not found",
              provider |-> provider, model |-> model, call |-> NoAdapter]
        ELSE IF ~callOk
        THEN [kind |-> "throw", error |-> "adapter error",
              provider |-> call.provider, model |-> call.model, call |-> call]
        ELSE [kind |-> "ok", error |-> NULL,
              provider |-> call.provider, model |-> call.model, call |-> call]

\* ------------------------------------------------------------------------
\* State
\* ------------------------------------------------------------------------
VARIABLES
    env,        \* the deployment's secrets: OPENAI_API_KEY, GEMINI_API_KEY, DEFAULT_LLM_PROVIDER
    minLevel,   \* Logger.minLevel (options.level || LOG_LEVEL || "info")
    now,        \* the clock
    db,         \* costTracker.db: 0 is null, r is the handle request r obtained
    usageLogs,  \* the usage_logs table, rows in insertion order
    logs,       \* bag of the log entries written to the console
    req,        \* the chat requests, each with its adapter closure and its track call
    dispatch,   \* a direct call of streamChat / generateChat: options and outcome
    summary,    \* a call of costTracker.getSummary: options and outcome
    costCall,   \* a direct read of the model registry: calculateCost, DEFAULT_MODELS
    config,     \* costTracker.config, with the argument the constructor was given
    loggerCall, \* a Logger, as constructed, and the last call made on it
    authCall,   \* a request passing the auth middleware: path, session, outcome
    counter     \* the counters table and the requests of the counter route

vars == <<env, minLevel, now, db, usageLogs, logs, req, dispatch, summary, costCall, config, loggerCall, authCall, counter>>

\* ------------------------------------------------------------------------
\* lib/logger.ts
\* ------------------------------------------------------------------------
LogLevels == {"debug", "info", "warn", "error"}

\* LOG_LEVELS[level] as a number: a name that is no level reads undefined,
\* which compares as NaN
LOG_LEVELS(level) ==
    CASE level = "debug" -> 0
      [] level = "info"  -> 1
      [] level = "warn"  -> 2
      [] level = "error" -> 3
      [] OTHER           -> NaN

\* new Logger(options): minLevel, from options.level and process.env.LOG_LEVEL
Logger(level, LOG_LEVEL) == Or(level, Or(LOG_LEVEL, "info"))

\* shouldLog letting through only what is above the minimum level
shouldLog_Above(min, level) ==
    /\ LOG_LEVELS(level) # NaN
    /\ LOG_LEVELS(min) # NaN
    /\ LOG_LEVELS(level) > LOG_LEVELS(min)

\* shouldLog: a comparison with NaN is false
shouldLog(min, level) ==
    /\ LOG_LEVELS(level) # NaN
    /\ LOG_LEVELS(min) # NaN
    /\ LOG_LEVELS(level) >= LOG_LEVELS(min)

\* a Logger before any call
NoLoggerCall ==
    [level |-> NULL,          \* options.level
     LOG_LEVEL |-> NULL,      \* process.env.LOG_LEVEL
     fn |-> "none",           \* none, debug, info, warn, error, llm
     calls |-> 0]

\* formatLog: a log entry (the timestamp is left out)
formatLog(level, message, requestId) ==
    [level |-> level, message |-> message, requestId |-> requestId,
     type |-> NULL, provider |-> NULL, model |-> NULL, usage |-> ZeroUsage,
     costUsd |-> 0, latencyMs |-> 0, status |-> NULL, errorMessage |-> NULL,
     endpoint |-> NULL, dailyCost |-> 0, threshold |-> 0]

\* Logger.debug / info / warn / error: the console after the call
output(console, min, entry) ==
    IF shouldLog(min, entry.level) THEN console (+) SetToBag({entry}) ELSE console

\* Logger.llm(message, context): info, context merged with type llm_call
llm(message, context) ==
    [formatLog("info", message, context.requestId) EXCEPT
        !.type = "llm_call",
        !.provider = context.provider, !.model = context.model,
        !.usage = context.usage, !.costUsd = context.costUsd,
        !.latencyMs = context.latencyMs, !.status = context.status,
        !.errorMessage = context.errorMessage, !.endpoint = context.endpoint]

\* ------------------------------------------------------------------------
\* lib/cost-tracker.ts
\* ------------------------------------------------------------------------
\* the default of alertThreshold: 10.0 USD a day
DefaultAlertThreshold == 400000000

\* the CostTrackerConfig values with a threshold of the set, or none: both
\* fields are optional
CostTrackerConfigs(thresholds) ==
    {[hasEnabled |-> hasEnabled, enabled |-> TRUE,
      hasThreshold |-> hasThreshold,
      alertThreshold |-> IF hasThreshold THEN alertThreshold ELSE 0] :
        hasEnabled \in BOOLEAN, hasThreshold \in BOOLEAN, alertThreshold \in thresholds}

\* {}: the argument the constructor defaults to
EmptyConfig ==
    [hasEnabled |-> FALSE, enabled |-> TRUE, hasThreshold |-> FALSE, alertThreshold |-> 0]

\* a constructor taking the threshold 0 for an omitted one (|| for ??)
CostTracker_ZeroIsOmitted(given) ==
    [given |-> given,
     enabled |-> IF given.hasEnabled THEN given.enabled ELSE TRUE,
     alertThreshold |-> IF given.hasThreshold /\ given.alertThreshold # 0
                        THEN given.alertThreshold
                        ELSE DefaultAlertThreshold]

\* new CostTracker(given): this.config (the argument is kept for reference)
CostTracker(given) ==
    [given |-> given,
     enabled |-> IF given.hasEnabled THEN given.enabled ELSE TRUE,
     alertThreshold |-> IF given.hasThreshold THEN given.alertThreshold
                                              ELSE DefaultAlertThreshold]

NoRow ==
    [requestId |-> 0, userId |-> NULL, provider |-> NULL, model |-> NULL,
     inputTokens |-> 0, outputTokens |-> 0, totalTokens |-> 0, costUsd |-> 0,
     latencyMs |-> 0, status |-> NULL, errorMessage |-> NULL, endpoint |-> NULL,
     createdAt |-> 0]

\* track: the NewUsageLog built from the parameters
LogEntryOf(params) ==
    [requestId |-> params.requestId, userId |-> params.userId,
     provider |-> params.provider, model |-> params.model,
     inputTokens |-> params.usage.inputTokens,
     outputTokens |-> params.usage.outputTokens,
     totalTokens |-> params.usage.totalTokens,
     costUsd |-> calculateCost(params.model, params.usage),
     latencyMs |-> params.latencyMs,
     status |-> Or(params.status, "success"),
     errorMessage |-> params.errorMessage, endpoint |-> params.endpoint,
     createdAt |-> 0]

\* track: the context handed to logger.llm
LogContextOf(params) ==
    [requestId |-> params.requestId, provider |-> params.provider,
     model |-> params.model, usage |-> params.usage,
     costUsd |-> calculateCost(params.model, params.usage),
     latencyMs |-> params.latencyMs, status |-> Or(params.status, "success"),
     errorMessage |-> params.errorMessage, endpoint |-> params.endpoint]

\* today.setHours(0, 0, 0, 0): local midnight of the day of instant t
Midnight(t) == t - (t % DayLength)

RECURSIVE SumCost(_)
SumCost(rows) ==
    IF rows = <<>> THEN 0 ELSE Head(rows).costUsd + SumCost(Tail(rows))

\* a select that leaves out the rows created at midnight itself
RowsSince_AfterMidnight(rows, today) ==
    SelectSeq(rows, LAMBDA row : row.createdAt > today)

\* select from usage_logs where createdAt >= today
RowsSince(rows, today) == SelectSeq(rows, LAMBDA row : row.createdAt >= today)

\* the warning of checkDailyThreshold
IsThresholdWarning(entry) ==
    entry.level = "warn" /\ entry.message = "Daily cost threshold exceeded"

\* checkDailyThreshold warning as soon as the threshold is reached
ThresholdCheck_AtThreshold(console, min, rows, today) ==
    LET dailyCost == SumCost(RowsSince(rows, today))
    IN  IF dailyCost >= config.alertThreshold
        THEN output(console, min,
                    [formatLog("warn", "Daily cost threshold exceeded", 0) EXCEPT
                        !.dailyCost = dailyCost, !.threshold = config.alertThreshold])
        ELSE console

\* checkDailyThreshold, after the select: the console after the check
ThresholdCheck(console, min, rows, today) ==
    LET dailyCost == SumCost(RowsSince(rows, today))
    IN  IF dailyCost > config.alertThreshold
        THEN output(console, min,
                    [formatLog("warn", "Daily cost threshold exceeded", 0) EXCEPT
                        !.dailyCost = dailyCost, !.threshold = config.alertThreshold])
        ELSE console

\* the catch of the insert logging the error and throwing it again
InsertCatch_Rethrows(console, min, requestId) ==
    [console |-> output(console, min,
                        formatLog("error", "Failed to log usage to database", requestId)),
     rethrown |-> TRUE]

\* track, catch of the insert: the console after the handler, and whether
\* the error leaves track
InsertCatch(console, min, requestId) ==
    [console |-> output(console, min,
                        formatLog("error", "Failed to log usage to database", requestId)),
     rethrown |-> FALSE]

\* the catch of the select logging the error and throwing it again
QueryCatch_Rethrows(console, min) ==
    [console |-> output(console, min,
                        formatLog("error", "Failed to check daily threshold", 0)),
     rethrown |-> TRUE]

\* checkDailyThreshold, catch of the select
QueryCatch(console, min) ==
    [console |-> output(console, min,
                        formatLog("error", "Failed to check daily threshold", 0)),
     rethrown |-> FALSE]

\* getSummary(options): a date that is not given is undefined, a user that
\* is not given is undefined or empty
NoSummaryOptions ==
    [hasStart |-> FALSE, startDate |-> 0, hasEnd |-> FALSE, endDate |-> 0,
     userId |-> NULL]

\* conditions that leave out the rows created at the end date itself
Matches_EndExclusive(row, options) ==
    /\ options.hasStart => row.createdAt >= options.startDate
    /\ options.hasEnd => row.createdAt < options.endDate
    /\ Truthy(options.userId) => row.userId = options.userId

\* getSummary: the conditions pushed for the options, joined by and(...)
Matches(row, options) ==
    /\ options.hasStart => row.createdAt >= options.startDate
    /\ options.hasEnd => row.createdAt <= options.endDate
    /\ Truthy(options.userId) => row.userId = options.userId

\* select from usage_logs where the conditions hold
MatchingRows(rows, options) == SelectSeq(rows, LAMBDA row : Matches(row, options))

NoGroup == [cost |-> 0, tokens |-> 0, requests |-> 0]

\* summary.byProvider = {}, summary.byModel = {}
NoGroups == [key \in {} |-> NoGroup]

\* getSummary, one round of the loop over one of the two maps:
\*   if (!map[key]) map[key] = {cost: 0, tokens: 0, requests: 0};
\*   map[key].cost += log.costUsd; ... tokens ...; ... requests += 1
\* For an inherited key map[key] is truthy, so no entry is created and the
\* three assignments land on the inherited object: the map stays as it is.
Aggregate(map, key, log) ==
    IF key \in InheritedKeys /\ key \notin DOMAIN map
    THEN map
    ELSE LET old == IF key \in DOMAIN map THEN map[key] ELSE NoGroup
         IN  [k \in DOMAIN map \cup {key} |->
                 IF k = key
                 THEN [cost |-> old.cost + log.costUsd,
                       tokens |-> old.tokens + log.totalTokens,
                       requests |-> old.requests + 1]
                 ELSE map[k]]

\* getSummary: the loop over the selected rows
RECURSIVE Accumulate(_, _)
Accumulate(acc, rows) ==
    IF rows = <<>>
    THEN acc
    ELSE LET log == Head(rows)
         IN  Accumulate([acc EXCEPT
                            !.totalCost = @ + log.costUsd,
                            !.totalTokens = @ + log.totalTokens,
                            !.byProvider = Aggregate(@, log.provider, log),
                            !.byModel = Aggregate(@, log.model, log)],
                        Tail(rows))

\* getSummary: the UsageSummary of the selected rows
Summarize(rows) ==
    Accumulate([totalCost |-> 0, totalTokens |-> 0, totalRequests |-> Len(rows),
                byProvider |-> NoGroups, byModel |-> NoGroups],
               rows)

\* the catch of getSummary throwing the error again
SummaryCatch_Rethrows(console, min) ==
    [console |-> output(console, min,
                        formatLog("error", "Failed to get usage summary", 0)),
     kind |-> "throw"]

\* getSummary, catch of the select and the loop: the console after it and
\* how the call ends (return null)
SummaryCatch(console, min) ==
    [console |-> output(console, min,
                        formatLog("error", "Failed to get usage summary", 0)),
     kind |-> "null"]

\* no call of getSummary made yet
NoSummary ==
    [state |-> "none",         \* none, pending, settled
     options |-> NoSummaryOptions,
     handle |-> 0,             \* this.db as getSummary read it
     select |-> "none",        \* none, pending, ok, failed
     selected |-> <<>>,        \* the rows the select returned
     kind |-> "none",          \* none, null, summary, throw
     value |-> Summarize(<<>>)]

\* no read of the registry made yet
NoCostCall ==
    [fn |-> "none",            \* none, calculateCost, DEFAULT_MODELS
     model |-> NULL, usage |-> ZeroUsage, provider |-> NULL,
     cost |-> 0, again |-> 0, defaultModel |-> NULL]

\* ------------------------------------------------------------------------
\* app/api/chat/stream/route.ts
\* ------------------------------------------------------------------------
\* request bodies: not JSON, JSON the schema rejects, JSON the schema accepts
BodyKinds == {"malformed", "invalid", "valid"}
BodyProviders == {NULL, "openai", "gemini"}
BodyModels == {NULL}

\* what a vendor reports to onFinish
VendorUsages ==
    {[promptTokens |-> 1000000, completionTokens |-> 20000000, totalTokens |-> 21000000]}

NoVendorUsage == [promptTokens |-> 0, completionTokens |-> 0, totalTokens |-> 0]

\* the environments a deployment is given: every key set and no default
\* provider; or no OpenAI key and a default provider that is no provider
Envs ==
    {[OPENAI_API_KEY |-> "sk-openai", GEMINI_API_KEY |-> "sk-gemini",
      DEFAULT_LLM_PROVIDER |-> NULL],
     [OPENAI_API_KEY |-> NULL, GEMINI_API_KEY |-> "sk-gemini",
      DEFAULT_LLM_PROVIDER |-> "anthropic"]}

\* the LOG_LEVEL values a deployment is given: unset (info), or warn
EnvLogLevels == {"info", "warn"}

IdleRequest ==
    [pc |-> "idle",            \* idle, failed, streaming, inserting, checking, done
     direct |-> FALSE,         \* costTracker.track called directly, not by the route
     status |-> 0,             \* HTTP status of the response, 0 before it
     cause |-> NULL,           \* message of a failure response
     requestId |-> 0,          \* crypto.randomUUID(), 0 before it
     header |-> 0,             \* X-Request-Id of the response, 0 without it
     dbOk |-> FALSE,           \* getDatabase() resolved
     startTime |-> 0,
     result |-> [provider |-> NULL, model |-> NULL],
     call |-> NoAdapter,       \* the adapter invocation
     finalUsage |-> ZeroUsage, \* the adapter's finalUsage
     vendor |-> "none",        \* none, running, finished (onFinish ran), failed
     reported |-> FALSE,       \* onFinish was given a usage
     vendorUsage |-> NoVendorUsage,
     cancelled |-> FALSE,      \* the caller cancelled the byte stream
     trackCalls |-> 0,         \* calls of costTracker.track
     inserts |-> 0,            \* db.insert(usageLogs) calls
     row |-> NoRow,            \* the values of the insert
     trackDb |-> 0,            \* this.db as track read it
     today |-> 0,              \* checkDailyThreshold's today
     insert |-> "none",        \* none, pending, ok, failed
     query |-> "none",         \* none, pending, ok, failed
     track |-> "none"]         \* none, pending, resolved, rejected

\* the catch of getDatabase() answering 503, as the usage summary route does
DatabaseCatch_Responds503(console, min, r) ==
    [console |-> output(console, min,
                        formatLog("warn", "Database not available for cost tracking", r)),
     status |-> 503]

\* catch of getDatabase(): the console after it and the response it sends
\* (0: none, the request goes on)
DatabaseCatch(console, min, r) ==
    [console |-> output(console, min,
                        formatLog("warn", "Database not available for cost tracking", r)),
     status |-> 0]

\* a catch of getDatabase() that takes the handle away from the tracker
HandleAfterCatch_Cleared(handle) == 0

\* costTracker.db after the catch of getDatabase(): setDatabase did not run
HandleAfterCatch(handle) == handle

\* catch of the route: 500 with the error's message
RouteCatch(console, min, r, q, message) ==
    [console |-> output(console, min, formatLog("error", "LLM stream failed", r)),
     request |-> [q EXCEPT !.pc = "failed", !.status = 500, !.cause = message]]

\* a route that answers only once the usage is tracked: no response yet
StreamResponse_AfterTrack(q, res) ==
    [q EXCEPT !.pc = "streaming",
              !.result = [provider |-> res.provider, model |-> res.model],
              !.call = res.call,
              !.vendor = "running"]

\* return new Response(result.stream, ...): the request once POST returned,
\* the .then callback registered and not yet run
StreamResponse(q, res) ==
    [q EXCEPT !.pc = "streaming", !.status = 200, !.header = q.requestId,
              !.result = [provider |-> res.provider, model |-> res.model],
              !.call = res.call,
              !.vendor = "running"]

\* crypto.randomUUID(): an identifier no other call returns; the call of
\* request r draws r
randomUUID(r) == r

\* POST up to its return; handle is the value of costTracker.db
POST(console, min, handle, r, bodyKind, body, envOk, dbOk, setupOk) ==
    LET q0 == [req[r] EXCEPT !.requestId = randomUUID(r), !.startTime = now]
    IN
    IF bodyKind = "malformed"
    THEN RouteCatch(console, min, r, q0, "malformed body") @@ [db |-> handle]
    ELSE IF bodyKind = "invalid"
    THEN [console |-> console, db |-> handle,
          request |-> [q0 EXCEPT !.pc = "failed", !.status = 400,
                                 !.cause = "Invalid request"]]
    ELSE IF ~envOk
    THEN RouteCatch(console, min, r, q0, "no environment") @@ [db |-> handle]
    ELSE
    LET caught == DatabaseCatch(console, min, r)
        c1 == IF dbOk THEN console ELSE caught.console
        h1 == IF dbOk THEN r ELSE HandleAfterCatch(handle)
        q1 == [q0 EXCEPT !.dbOk = dbOk]
        c2 == output(c1, min, formatLog("info", "Starting LLM stream", r))
        res == streamChat([messages |-> <<>>, provider |-> body.provider,
                           model |-> body.model, apiKey |-> NULL, env |-> env],
                          setupOk)
    IN
    IF ~dbOk /\ caught.status # 0
    THEN [console |-> c1, db |-> h1,
          request |-> [q1 EXCEPT !.pc = "failed", !.status = caught.status,
                                 !.cause = "Database not available"]]
    ELSE IF res.kind = "throw"
    THEN RouteCatch(c2, min, r, [q1 EXCEPT !.call = res.call], res.error)
         @@ [db |-> h1]
    ELSE [console |-> c2, db |-> h1, request |-> StreamResponse(q1, res)]

\* A chat request arrives and POST runs up to the return of its response.
Post(r) ==
    /\ req[r].pc = "idle"
    /\ \E bodyKind \in BodyKinds, provider \in BodyProviders, model \in BodyModels,
          envOk \in BOOLEAN, dbOk \in BOOLEAN, setupOk \in BOOLEAN :
          LET out == POST(logs, minLevel, db, r, bodyKind,
                          [provider |-> provider, model |-> model],
                          envOk, dbOk, setupOk)
          IN  /\ req' = [req EXCEPT ![r] = out.request]
              /\ logs' = out.console
              /\ db' = out.db
    /\ UNCHANGED <<env, minLevel, now, usageLogs, dispatch, summary, costCall, config, loggerCall, authCall, counter>>

\* the value the adapter's response future resolves to: await result, where
\* result is what streamText returned, then the closure's finalUsage as it is
ResponseOf(q) ==
    [usage |-> q.finalUsage, model |-> q.call.model, provider |-> q.call.provider]

\* a response future that stays pending once the byte stream is cancelled
ResponseSettles_UnlessCancelled(q) == ~q.cancelled

\* whether the adapter's response future can settle: await result does not
\* wait for the vendor call
ResponseSettles(q) == TRUE

\* the continuation of the route after track settled: .then's tail or .catch
\* (a direct caller of track has no continuation)
AfterTrack(console, min, r, q, outcome) ==
    [console |-> IF q.direct
                 THEN console
                 ELSE IF outcome = "resolved"
                 THEN output(console, min, formatLog("info", "LLM stream completed", r))
                 ELSE output(console, min, formatLog("error", "Failed to track usage", r)),
     request |-> [q EXCEPT !.pc = "done", !.track = outcome]]

\* track inserting whether or not a database handle is set
track_InsertsWithoutHandle(console, min, handle, params) ==
    IF ~config.enabled
    THEN [console |-> console, inserting |-> FALSE, row |-> NoRow]
    ELSE [console |-> output(console, min,
                             llm("LLM API call completed", LogContextOf(params))),
          inserting |-> TRUE,
          row |-> [LogEntryOf(params) EXCEPT !.createdAt = now]]

\* track writing the usage line only when a database handle is set
track_LogsOnlyWithHandle(console, min, handle, params) ==
    IF ~config.enabled
    THEN [console |-> console, inserting |-> FALSE, row |-> NoRow]
    ELSE IF handle # 0
         THEN [console |-> output(console, min,
                                  llm("LLM API call completed", LogContextOf(params))),
               inserting |-> TRUE,
               row |-> [LogEntryOf(params) EXCEPT !.createdAt = now]]
         ELSE [console |-> console, inserting |-> FALSE, row |-> NoRow]

\* track recording nothing more once the daily threshold was exceeded
track_StopsOverThreshold(console, min, handle, params) ==
    IF ~config.enabled \/ \E entry \in BagToSet(console) : IsThresholdWarning(entry)
    THEN [console |-> console, inserting |-> FALSE, row |-> NoRow]
    ELSE LET c1 == output(console, min, llm("LLM API call completed", LogContextOf(params)))
         IN  IF handle # 0
             THEN [console |-> c1, inserting |-> TRUE,
                   row |-> [LogEntryOf(params) EXCEPT !.createdAt = now]]
             ELSE [console |-> c1, inserting |-> FALSE, row |-> NoRow]

\* CostTracker.track up to its first await; handle is this.db
track(console, min, handle, params) ==
    IF ~config.enabled
    THEN [console |-> console, inserting |-> FALSE, row |-> NoRow]
    ELSE LET c1 == output(console, min, llm("LLM API call completed", LogContextOf(params)))
         IN  IF handle # 0
             THEN [console |-> c1, inserting |-> TRUE,
                   row |-> [LogEntryOf(params) EXCEPT !.createdAt = now]]
             ELSE [console |-> c1, inserting |-> FALSE, row |-> NoRow]

\* a .then callback handing track no request identifier
RouteTrackParams_NoRequestId(r) ==
    LET response == ResponseOf(req[r])
    IN  [requestId |-> 0, userId |-> NULL,
         provider |-> response.provider, model |-> response.model,
         usage |-> response.usage,
         latencyMs |-> now - req[r].startTime,
         status |-> "success", errorMessage |-> NULL,
         endpoint |-> "/api/chat/stream"]

\* the parameters the route's .then callback hands to costTracker.track
RouteTrackParams(r) ==
    LET response == ResponseOf(req[r])
    IN  [requestId |-> req[r].requestId, userId |-> NULL,
         provider |-> response.provider, model |-> response.model,
         usage |-> response.usage,
         latencyMs |-> now - req[r].startTime,
         status |-> "success", errorMessage |-> NULL,
         endpoint |-> "/api/chat/stream"]

\* The response future of request r settles and the route's .then callback
\* calls costTracker.track, which runs up to the await of the insert.
TrackStart(r) ==
    /\ req[r].pc = "streaming"
    /\ ResponseSettles(req[r])
    /\ LET params == RouteTrackParams(r)
           t == track(logs, minLevel, db, params)
           q == [req[r] EXCEPT !.trackCalls = @ + 1, !.trackDb = db]
           after == AfterTrack(t.console, minLevel, r, q, "resolved")
       IN  IF t.inserting
           THEN /\ req' = [req EXCEPT ![r] = [q EXCEPT !.pc = "inserting",
                                                       !.track = "pending",
                                                       !.inserts = @ + 1,
                                                       !.insert = "pending",
                                                       !.row = t.row]]
                /\ logs' = t.console
           ELSE /\ req' = [req EXCEPT ![r] = after.request]
                /\ logs' = after.console
    /\ UNCHANGED <<env, minLevel, now, db, usageLogs, dispatch, summary, costCall, config, loggerCall, authCall, counter>>

\* the check left out when the insert of the call failed
CheckStart_OnlyAfterInsertOk(console, min, handle, r, q) ==
    IF handle = 0 \/ config.alertThreshold = 0 \/ q.insert = "failed"
    THEN AfterTrack(console, min, r, q, "resolved")
    ELSE [console |-> console,
          request |-> [q EXCEPT !.pc = "checking", !.query = "pending",
                                !.today = Midnight(now)]]

\* checkDailyThreshold up to the await of the select, or track's return
\* when the check is skipped
CheckStart(console, min, handle, r, q) ==
    IF handle = 0 \/ config.alertThreshold = 0
    THEN AfterTrack(console, min, r, q, "resolved")
    ELSE [console |-> console,
          request |-> [q EXCEPT !.pc = "checking", !.query = "pending",
                                !.today = Midnight(now)]]

\* an insert that also purges the rows of earlier days
InsertValues_PurgesEarlierDays(rows, row) ==
    Append(RowsSince(rows, Midnight(row.createdAt)), row)

\* db.insert(usageLogs).values(logEntry): the table after the insert
InsertValues(rows, row) == Append(rows, row)

\* The insert of request r succeeds.
InsertOk(r) ==
    /\ req[r].pc = "inserting"
    /\ usageLogs' = InsertValues(usageLogs, req[r].row)
    /\ LET next == CheckStart(logs, minLevel, db, r,
                           [req[r] EXCEPT !.insert = "ok", !.row = NoRow])
       IN  /\ req' = [req EXCEPT ![r] = next.request]
           /\ logs' = next.console
    /\ UNCHANGED <<env, minLevel, now, db, dispatch, summary, costCall, config, loggerCall, authCall, counter>>

\* The insert of request r fails.
InsertFail(r) ==
    /\ req[r].pc = "inserting"
    /\ LET caught == InsertCatch(logs, minLevel, r)
           q == [req[r] EXCEPT !.insert = "failed", !.row = NoRow]
           next == IF caught.rethrown
                   THEN AfterTrack(caught.console, minLevel, r, q, "rejected")
                   ELSE CheckStart(caught.console, minLevel, db, r, q)
       IN  /\ req' = [req EXCEPT ![r] = next.request]
           /\ logs' = next.console
    /\ UNCHANGED <<env, minLevel, now, db, usageLogs, dispatch, summary, costCall, config, loggerCall, authCall, counter>>

\* The daily-cost select of request r returns its rows.
QueryOk(r) ==
    /\ req[r].pc = "checking"
    /\ LET c1 == ThresholdCheck(logs, minLevel, usageLogs, req[r].today)
           next == AfterTrack(c1, minLevel, r, [req[r] EXCEPT !.query = "ok"], "resolved")
       IN  /\ req' = [req EXCEPT ![r] = next.request]
           /\ logs' = next.console
    /\ UNCHANGED <<env, minLevel, now, db, usageLogs, dispatch, summary, costCall, config, loggerCall, authCall, counter>>

\* The daily-cost select of request r fails.
QueryFail(r) ==
    /\ req[r].pc = "checking"
    /\ LET caught == QueryCatch(logs, minLevel)
           q == [req[r] EXCEPT !.query = "failed"]
           next == AfterTrack(caught.console, minLevel, r, q,
                              IF caught.rethrown THEN "rejected" ELSE "resolved")
       IN  /\ req' = [req EXCEPT ![r] = next.request]
           /\ logs' = next.console
    /\ UNCHANGED <<env, minLevel, now, db, usageLogs, dispatch, summary, costCall, config, loggerCall, authCall, counter>>

\* The vendor call of request r completes: streamText calls onFinish.
VendorFinish(r) ==
    /\ req[r].vendor = "running"
    /\ \E hasUsage \in BOOLEAN, usage \in VendorUsages :
          req' = [req EXCEPT ![r] =
                    [@ EXCEPT !.vendor = "finished",
                              !.reported = hasUsage,
                              !.vendorUsage = IF hasUsage THEN usage ELSE NoVendorUsage,
                              !.finalUsage = onFinish(@, hasUsage, usage)]]
    /\ UNCHANGED <<env, minLevel, now, db, usageLogs, logs, dispatch, summary, costCall, config, loggerCall, authCall, counter>>

\* The vendor call of request r fails after streaming began: no onFinish.
VendorFail(r) ==
    /\ req[r].vendor = "running"
    /\ req' = [req EXCEPT ![r] = [@ EXCEPT !.vendor = "failed"]]
    /\ UNCHANGED <<env, minLevel, now, db, usageLogs, logs, dispatch, summary, costCall, config, loggerCall, authCall, counter>>

\* The caller cancels the byte stream of request r while the vendor call runs.
Cancel(r) ==
    /\ req[r].status = 200
    /\ req[r].vendor = "running"
    /\ ~req[r].cancelled
    /\ req' = [req EXCEPT ![r] = [@ EXCEPT !.cancelled = TRUE]]
    /\ UNCHANGED <<env, minLevel, now, db, usageLogs, logs, dispatch, summary, costCall, config, loggerCall, authCall, counter>>

\* ------------------------------------------------------------------------
\* lib/auth/config.ts, middleware.ts
\* ------------------------------------------------------------------------
\* A pathname is a sequence of pieces whose concatenation is the string; no
\* piece is a prefix of another, so a pathname starts with a string made of
\* pieces exactly when its sequence starts with those pieces.
PathPieces ==
    {"/", "dashboard", "api", "protected", "auth", "signin", "public",
     "_next", "static", "image", "favicon.ico", "x"}

RECURSIVE PathsOfLength(_)
PathsOfLength(n) ==
    IF n = 1 THEN {<<"/">>}
    ELSE {Append(path, piece) : path \in PathsOfLength(n - 1), piece \in PathPieces}

Pathnames == UNION {PathsOfLength(n) : n \in 1..MaxPathLen}

\* String.prototype.startsWith
startsWith(pathname, prefix) ==
    /\ Len(prefix) <= Len(pathname)
    /\ SubSeq(pathname, 1, Len(prefix)) = prefix

\* the session handed to the callback: none, one without a user, one of a user
Sessions ==
    {[session |-> FALSE, user |-> NULL],
     [session |-> TRUE, user |-> NULL],
     [session |-> TRUE, user |-> "u1"]}

\* pages.signIn
SignInPage == <<"/", "auth", "/", "signin">>

\* a callback protecting the two pathnames only, not what lies under them
authorized_ExactPath(auth, pathname) ==
    LET isLoggedIn == auth.session /\ auth.user # NULL
        isOnDashboard == pathname = <<"/", "dashboard">>
        isOnProtected == pathname = <<"/", "api", "/", "protected">>
    IN  IF isOnDashboard \/ isOnProtected
        THEN isLoggedIn
        ELSE TRUE

\* callbacks.authorized({ auth, request: { nextUrl } })
authorized(auth, pathname) ==
    LET isLoggedIn == auth.session /\ auth.user # NULL
        isOnDashboard == startsWith(pathname, <<"/", "dashboard">>)
        isOnProtected == startsWith(pathname, <<"/", "api", "/", "protected">>)
    IN  IF isOnDashboard \/ isOnProtected
        THEN isLoggedIn
        ELSE TRUE

\* config.matcher: every pathname but those that go on, after the first
\* slash, with one of the five excluded strings
matcher(pathname) ==
    LET rest == Tail(pathname)
    IN  /\ ~startsWith(rest, <<"_next", "/", "static">>)
        /\ ~startsWith(rest, <<"_next", "/", "image">>)
        /\ ~startsWith(rest, <<"favicon.ico">>)
        /\ ~startsWith(rest, <<"public">>)
        /\ ~startsWith(rest, <<"api", "/", "auth">>)

\* export default auth: the middleware on a matched pathname lets the
\* request through when the callback authorizes it and redirects it to the
\* sign-in page otherwise; an unmatched pathname never reaches it
middleware(auth, pathname) ==
    IF ~matcher(pathname)
    THEN [outcome |-> "next", checked |-> FALSE, location |-> <<>>]
    ELSE IF authorized(auth, pathname)
    THEN [outcome |-> "next", checked |-> TRUE, location |-> <<>>]
    ELSE [outcome |-> "redirect", checked |-> TRUE, location |-> SignInPage]

NoAuthCall ==
    [pathname |-> <<"/">>, auth |-> [session |-> FALSE, user |-> NULL],
     outcome |-> "none", checked |-> FALSE, location |-> <<>>]

\* ------------------------------------------------------------------------
\* app/api/counter/route.ts
\* ------------------------------------------------------------------------
CounterBodyKinds == {"malformed", "valid"}
CounterActions == {NULL, "increment", "decrement", "reset"}

\* the value of the default counter when the requests begin
CounterInitials == {0, 7}

IdleCounterRequest ==
    [pc |-> "idle",       \* idle, selecting, updating, done
     action |-> NULL,     \* body.action
     current |-> 0,       \* current[0].value
     status |-> 0,        \* HTTP status of the response, 0 before it
     value |-> 0]         \* value of the row the response carries

\* the counters table (the values of the rows named "default", in the order
\* of their ids), the value it began with, and the requests
NoCounter ==
    [rows |-> <<>>, initial |-> 0, reqs |-> [r \in Requests |-> IdleCounterRequest]]

\* newValue, from the value the select of the request returned
CounterNewValue(action, current) ==
    IF action = "increment" THEN current + 1 ELSE current - 1

\* POST up to the await of the select, or to its response
CounterPOST(q, bodyKind, action, dbOk) ==
    IF bodyKind = "malformed"
    THEN [q EXCEPT !.pc = "done", !.status = 500]
    ELSE IF ~Truthy(action) \/ action \notin {"increment", "decrement"}
    THEN [q EXCEPT !.pc = "done", !.action = action, !.status = 400]
    ELSE IF ~dbOk
    THEN [q EXCEPT !.pc = "done", !.action = action, !.status = 500]
    ELSE [q EXCEPT !.pc = "selecting", !.action = action]

\* POST after the select returned rows (limit 1): 404, or up to the await
\* of the update
CounterSelected(q, rows) ==
    IF Len(rows) = 0
    THEN [q EXCEPT !.pc = "done", !.status = 404]
    ELSE [q EXCEPT !.pc = "updating", !.current = rows[1]]

\* update counters set value = newValue where name = "default": the table
CounterUpdate(rows, q) ==
    [i \in 1..Len(rows) |-> CounterNewValue(q.action, q.current)]

\* catch of the counter route
CounterCatch(q) == [q EXCEPT !.pc = "done", !.status = 500]

\* ------------------------------------------------------------------------
\* The chat route serving MaxReq requests
\* ------------------------------------------------------------------------
NoDispatch ==
    [fn |-> "none",
     options |-> [messages |-> <<>>, provider |-> NULL, model |-> NULL,
                  apiKey |-> NULL,
                  env |-> [OPENAI_API_KEY |-> NULL, GEMINI_API_KEY |-> NULL,
                           DEFAULT_LLM_PROVIDER |-> NULL]],
     result |-> [kind |-> "none", error |-> NULL, provider |-> NULL,
                 model |-> NULL, call |-> NoAdapter]]

Init ==
    /\ env \in Envs
    /\ minLevel \in EnvLogLevels
    /\ now = 0
    /\ db = 0
    /\ usageLogs = <<>>
    /\ logs = EmptyBag
    /\ req = [r \in Requests |-> IdleRequest]
    /\ dispatch = NoDispatch
    /\ summary = NoSummary
    /\ costCall = NoCostCall
    /\ config = CostTracker(EmptyConfig)
    /\ loggerCall = NoLoggerCall
    /\ authCall = NoAuthCall
    /\ counter = NoCounter

Next ==
    \/ \E r \in Requests : Post(r)
    \/ \E r \in Requests : TrackStart(r)
    \/ \E r \in Requests : InsertOk(r)
    \/ \E r \in Requests : InsertFail(r)
    \/ \E r \in Requests : QueryOk(r)
    \/ \E r \in Requests : QueryFail(r)
    \/ \E r \in Requests : VendorFinish(r)
    \/ \E r \in Requests : VendorFail(r)
    \/ \E r \in Requests : Cancel(r)

Spec == Init /\ [][Next]_vars

\* ------------------------------------------------------------------------
\* The dispatcher called directly: streamChat(options), generateChat(options)
\* ------------------------------------------------------------------------
OptProviders == {NULL, "openai", "gemini"}
OptModels == {NULL, EMPTY, "gpt-4o", "my-model"}
OptApiKeys == {NULL, EMPTY, "sk-option"}
EnvOpenAIKeys == {NULL, EMPTY, "sk-openai"}
EnvGeminiKeys == {NULL, EMPTY, "sk-gemini"}
EnvDefaultProviders == {NULL, EMPTY, "openai", "gemini", "anthropic"}

StreamChatOptions ==
    [messages : {<<>>}, provider : OptProviders, model : OptModels,
     apiKey : OptApiKeys,
     env : [OPENAI_API_KEY : EnvOpenAIKeys, GEMINI_API_KEY : EnvGeminiKeys,
            DEFAULT_LLM_PROVIDER : EnvDefaultProviders]]

InitDispatch ==
    /\ env = [OPENAI_API_KEY |-> NULL, GEMINI_API_KEY |-> NULL,
              DEFAULT_LLM_PROVIDER |-> NULL]
    /\ minLevel = "info"
    /\ now = 0
    /\ db = 0
    /\ usageLogs = <<>>
    /\ logs = EmptyBag
    /\ req = [r \in Requests |-> IdleRequest]
    /\ \E options \in StreamChatOptions :
          dispatch = [NoDispatch EXCEPT !.options = options]
    /\ summary = NoSummary
    /\ costCall = NoCostCall
    /\ config = CostTracker(EmptyConfig)
    /\ loggerCall = NoLoggerCall
    /\ authCall = NoAuthCall
    /\ counter = NoCounter

\* streamChat(options) is called and settles.
CallStreamChat ==
    /\ dispatch.fn = "none"
    /\ \E setupOk \in BOOLEAN :
          dispatch' = [dispatch EXCEPT !.fn = "streamChat",
                                       !.result = streamChat(dispatch.options, setupOk)]
    /\ UNCHANGED <<env, minLevel, now, db, usageLogs, logs, req, summary, costCall, config, loggerCall, authCall, counter>>

\* generateChat(options) is called and settles.
CallGenerateChat ==
    /\ dispatch.fn = "none"
    /\ \E callOk \in BOOLEAN :
          dispatch' = [dispatch EXCEPT !.fn = "generateChat",
                                       !.result = generateChat(dispatch.options, callOk)]
    /\ UNCHANGED <<env, minLevel, now, db, usageLogs, logs, req, summary, costCall, config, loggerCall, authCall, counter>>

NextDispatch ==
    \/ CallStreamChat
    \/ CallGenerateChat

SpecDispatch == InitDispatch /\ [][NextDispatch]_vars

\* ------------------------------------------------------------------------
\* The cost tracker called directly: setDatabase, track, getSummary, over a
\* table that holds rows persisted earlier, with a clock that runs over two
\* local days
\* ------------------------------------------------------------------------
LastInstant == 2 * DayLength - 1

TrackProviders == {"openai"}
TrackModels == {"gpt-4o"}
TrackUsages ==
    {ZeroUsage,
     [inputTokens |-> 0, outputTokens |-> 100000, totalTokens |-> 100000]}
TrackStatuses == {NULL}
TrackUsers == {NULL}
TrackerLogLevels == {"info", "warn", "error"}

\* a row persisted at instant 0: 100000 output tokens of gpt-4o, 1.00 USD
DollarRow ==
    [NoRow EXCEPT !.provider = "openai", !.model = "gpt-4o",
                  !.outputTokens = 100000, !.totalTokens = 100000,
                  !.costUsd = calculateCost("gpt-4o",
                                  [inputTokens |-> 0, outputTokens |-> 100000,
                                   totalTokens |-> 100000]),
                  !.status = "success"]

\* the number of 1.00 USD rows that add up to the alert threshold
ThresholdRows == DefaultAlertThreshold \div DollarRow.costUsd

\* rows of two providers and three models, one of them a model whose name
\* is an inherited key
MixedRows ==
    << [DollarRow EXCEPT !.userId = "u1"],
       [DollarRow EXCEPT !.provider = "gemini", !.model = "gemini-1.5-flash",
                         !.inputTokens = 1000, !.outputTokens = 500,
                         !.totalTokens = 1500,
                         !.costUsd = calculateCost("gemini-1.5-flash",
                                         [inputTokens |-> 1000, outputTokens |-> 500,
                                          totalTokens |-> 1500])],
       [DollarRow EXCEPT !.model = "constructor", !.userId = "u1"] >>

\* the tables the tracker starts on: empty; 1.00 USD rows up to the
\* threshold, and one more
PersistedTables ==
    {<<>>,
     [i \in 1..ThresholdRows |-> DollarRow],
     [i \in 1..(ThresholdRows + 1) |-> DollarRow]}

\* the tables getSummary is called on
SummaryTables == {MixedRows}

\* no filter; the rows of the second day; the rows of user u1 up to the end
\* of the first day
SummaryOptions ==
    {NoSummaryOptions,
     [NoSummaryOptions EXCEPT !.hasStart = TRUE, !.startDate = DayLength],
     [NoSummaryOptions EXCEPT !.hasEnd = TRUE, !.endDate = DayLength - 1,
                              !.userId = "u1"]}

InitTracker ==
    /\ env = NoDispatch.options.env
    /\ minLevel \in TrackerLogLevels
    /\ now = 0
    /\ db = 0
    /\ usageLogs \in PersistedTables
    /\ logs = EmptyBag
    /\ req = [r \in Requests |-> IdleRequest]
    /\ dispatch = NoDispatch
    /\ summary = NoSummary
    /\ costCall = NoCostCall
    /\ config = CostTracker(EmptyConfig)
    /\ loggerCall = NoLoggerCall
    /\ authCall = NoAuthCall
    /\ counter = NoCounter

\* costTracker.setDatabase(db)
SetDatabase ==
    /\ db = 0
    /\ db' = 1
    /\ UNCHANGED <<env, minLevel, now, usageLogs, logs, req, dispatch, summary, costCall, config, loggerCall, authCall, counter>>

\* The clock advances by one instant.
Tick ==
    /\ now < LastInstant
    /\ now' = now + 1
    /\ UNCHANGED <<env, minLevel, db, usageLogs, logs, req, dispatch, summary, costCall, config, loggerCall, authCall, counter>>

\* Caller r calls costTracker.track(params), which runs up to the await of
\* the insert, or to its return when the tracker holds no handle.
CallTrack(r) ==
    /\ req[r].pc = "idle"
    /\ \E provider \in TrackProviders, model \in TrackModels, usage \in TrackUsages,
          status \in TrackStatuses, userId \in TrackUsers :
          LET params == [requestId |-> r, userId |-> userId,
                         provider |-> provider, model |-> model, usage |-> usage,
                         latencyMs |-> 0, status |-> status,
                         errorMessage |-> IF status = "error" THEN "failed" ELSE NULL,
                         endpoint |-> NULL]
              t == track(logs, minLevel, db, params)
              q == [req[r] EXCEPT !.direct = TRUE, !.startTime = now,
                                  !.trackCalls = @ + 1, !.trackDb = db]
              after == AfterTrack(t.console, minLevel, r, q, "resolved")
          IN  IF t.inserting
              THEN /\ req' = [req EXCEPT ![r] = [q EXCEPT !.pc = "inserting",
                                                          !.track = "pending",
                                                          !.inserts = @ + 1,
                                                          !.insert = "pending",
                                                          !.row = t.row]]
                   /\ logs' = t.console
              ELSE /\ req' = [req EXCEPT ![r] = after.request]
                   /\ logs' = after.console
    /\ UNCHANGED <<env, minLevel, now, db, usageLogs, dispatch, summary, costCall, config, loggerCall, authCall, counter>>

\* costTracker.getSummary(options) is called and runs up to the await of
\* the select, or returns null when the tracker holds no handle.
GetSummary ==
    /\ summary.state = "none"
    /\ \E options \in SummaryOptions :
          summary' = IF db = 0
                     THEN [NoSummary EXCEPT !.state = "settled", !.options = options,
                                            !.kind = "null"]
                     ELSE [NoSummary EXCEPT !.state = "pending", !.options = options,
                                            !.handle = db, !.select = "pending"]
    /\ UNCHANGED <<env, minLevel, now, db, usageLogs, logs, req, dispatch, costCall, config, loggerCall, authCall, counter>>

\* The select of getSummary returns its rows and the loop runs.
SummaryOk ==
    /\ summary.state = "pending"
    /\ LET rows == MatchingRows(usageLogs, summary.options)
       IN  summary' = [summary EXCEPT !.state = "settled", !.select = "ok",
                                      !.selected = rows,
                                      !.kind = "summary", !.value = Summarize(rows)]
    /\ UNCHANGED <<env, minLevel, now, db, usageLogs, logs, req, dispatch, costCall, config, loggerCall, authCall, counter>>

\* The select of getSummary fails.
SummaryFail ==
    /\ summary.state = "pending"
    /\ LET caught == SummaryCatch(logs, minLevel)
       IN  /\ summary' = [summary EXCEPT !.state = "settled", !.select = "failed",
                                          !.kind = caught.kind]
           /\ logs' = caught.console
    /\ UNCHANGED <<env, minLevel, now, db, usageLogs, req, dispatch, costCall, config, loggerCall, authCall, counter>>

NextTracker ==
    \/ SetDatabase
    \/ Tick
    \/ \E r \in Requests : CallTrack(r)
    \/ \E r \in Requests : InsertOk(r)
    \/ \E r \in Requests : InsertFail(r)
    \/ \E r \in Requests : QueryOk(r)
    \/ \E r \in Requests : QueryFail(r)

SpecTracker == InitTracker /\ [][NextTracker]_vars

\* track and getSummary called in any order
InitSummary ==
    /\ env = NoDispatch.options.env
    /\ minLevel = "info"
    /\ now = 0
    /\ db = 0
    /\ usageLogs \in SummaryTables
    /\ logs = EmptyBag
    /\ req = [r \in Requests |-> IdleRequest]
    /\ dispatch = NoDispatch
    /\ summary = NoSummary
    /\ costCall = NoCostCall
    /\ config = CostTracker(EmptyConfig)
    /\ loggerCall = NoLoggerCall
    /\ authCall = NoAuthCall
    /\ counter = NoCounter

NextSummary ==
    \/ NextTracker
    \/ GetSummary
    \/ SummaryOk
    \/ SummaryFail

SpecSummary == InitSummary /\ [][NextSummary]_vars

\* ------------------------------------------------------------------------
\* The model registry read directly: calculateCost(model, usage) and
\* DEFAULT_MODELS[provider]
\* ------------------------------------------------------------------------
CostModels == RegistryModels \cup {"unknown-model", EMPTY} \cup InheritedKeys
CostTokens == {0, 3, 500, 1000}
CostUsages ==
    {[inputTokens |-> i, outputTokens |-> o, totalTokens |-> i + o] :
        i \in CostTokens, o \in CostTokens}

InitRegistry ==
    /\ env = NoDispatch.options.env
    /\ minLevel = "info"
    /\ now = 0
    /\ db = 0
    /\ usageLogs = <<>>
    /\ logs = EmptyBag
    /\ req = [r \in Requests |-> IdleRequest]
    /\ dispatch = NoDispatch
    /\ summary = NoSummary
    /\ \E model \in CostModels, usage \in CostUsages, provider \in LLMProviders :
          costCall = [NoCostCall EXCEPT !.model = model, !.usage = usage,
                                        !.provider = provider]
    /\ config = CostTracker(EmptyConfig)
    /\ loggerCall = NoLoggerCall
    /\ authCall = NoAuthCall
    /\ counter = NoCounter

\* calculateCost(model, usage) is called, twice with the same arguments.
CallCalculateCost ==
    /\ costCall.fn = "none"
    /\ costCall' = [costCall EXCEPT
                       !.fn = "calculateCost",
                       !.cost = calculateCost(costCall.model, costCall.usage),
                       !.again = calculateCost(costCall.model, costCall.usage)]
    /\ UNCHANGED <<env, minLevel, now, db, usageLogs, logs, req, dispatch, summary, config, loggerCall, authCall, counter>>

\* DEFAULT_MODELS[provider] is read.
ReadDefaultModel ==
    /\ costCall.fn = "none"
    /\ costCall' = [costCall EXCEPT
                       !.fn = "DEFAULT_MODELS",
                       !.defaultModel = DEFAULT_MODELS(costCall.provider)]
    /\ UNCHANGED <<env, minLevel, now, db, usageLogs, logs, req, dispatch, summary, config, loggerCall, authCall, counter>>

NextRegistry ==
    \/ CallCalculateCost
    \/ ReadDefaultModel

SpecRegistry == InitRegistry /\ [][NextRegistry]_vars

\* ------------------------------------------------------------------------
\* A Logger called directly: debug, info, warn, error, llm
\* ------------------------------------------------------------------------
LoggerOptionLevels == {NULL} \cup LogLevels
\* LOG_LEVEL: unset, empty, a level, or a string that names no level
EnvLOG_LEVELS == {NULL, EMPTY, "verbose"} \cup LogLevels

\* the context of the one llm call: 1000 input and 500 output tokens of gpt-4o
LlmContext ==
    LogContextOf([requestId |-> 1, userId |-> NULL, provider |-> "openai",
                  model |-> "gpt-4o",
                  usage |-> [inputTokens |-> 1000, outputTokens |-> 500,
                             totalTokens |-> 1500],
                  latencyMs |-> 1, status |-> NULL, errorMessage |-> NULL,
                  endpoint |-> "/api/chat/stream"])

InitLogger ==
    /\ env = NoDispatch.options.env
    /\ now = 0
    /\ db = 0
    /\ usageLogs = <<>>
    /\ logs = EmptyBag
    /\ req = [r \in Requests |-> IdleRequest]
    /\ dispatch = NoDispatch
    /\ summary = NoSummary
    /\ costCall = NoCostCall
    /\ config = CostTracker(EmptyConfig)
    /\ \E level \in LoggerOptionLevels, LOG_LEVEL \in EnvLOG_LEVELS :
          /\ minLevel = Logger(level, LOG_LEVEL)
          /\ loggerCall = [NoLoggerCall EXCEPT !.level = level, !.LOG_LEVEL = LOG_LEVEL]
    /\ authCall = NoAuthCall
    /\ counter = NoCounter

\* logger.debug / info / warn / error (message)
CallLog(level) ==
    /\ loggerCall.calls < MaxCalls
    /\ logs' = output(logs, minLevel, formatLog(level, "message", 0))
    /\ loggerCall' = [loggerCall EXCEPT !.fn = level, !.calls = @ + 1]
    /\ UNCHANGED <<env, minLevel, now, db, usageLogs, req, dispatch, summary, costCall, config, authCall, counter>>

\* logger.llm(message, context)
CallLlm ==
    /\ loggerCall.calls < MaxCalls
    /\ logs' = output(logs, minLevel, llm("LLM API call completed", LlmContext))
    /\ loggerCall' = [loggerCall EXCEPT !.fn = "llm", !.calls = @ + 1]
    /\ UNCHANGED <<env, minLevel, now, db, usageLogs, req, dispatch, summary, costCall, config, authCall, counter>>

NextLogger ==
    \/ \E level \in LogLevels : CallLog(level)
    \/ CallLlm

SpecLogger == InitLogger /\ [][NextLogger]_vars

\* ------------------------------------------------------------------------
\* A request passing the auth middleware
\* ------------------------------------------------------------------------
InitAuth ==
    /\ env = NoDispatch.options.env
    /\ minLevel = "info"
    /\ now = 0
    /\ db = 0
    /\ usageLogs = <<>>
    /\ logs = EmptyBag
    /\ req = [r \in Requests |-> IdleRequest]
    /\ dispatch = NoDispatch
    /\ summary = NoSummary
    /\ costCall = NoCostCall
    /\ config = CostTracker(EmptyConfig)
    /\ loggerCall = NoLoggerCall
    /\ \E pathname \in Pathnames, auth \in Sessions :
          authCall = [NoAuthCall EXCEPT !.pathname = pathname, !.auth = auth]
    /\ counter = NoCounter

\* The request reaches the middleware.
Middleware ==
    /\ authCall.outcome = "none"
    /\ LET out == middleware(authCall.auth, authCall.pathname)
       IN  authCall' = [authCall EXCEPT !.outcome = out.outcome,
                                        !.checked = out.checked,
                                        !.location = out.location]
    /\ UNCHANGED <<env, minLevel, now, db, usageLogs, logs, req, dispatch, summary, costCall, config, loggerCall, counter>>

NextAuth == Middleware

SpecAuth == InitAuth /\ [][NextAuth]_vars

\* ------------------------------------------------------------------------
\* The counter route serving MaxReq concurrent POST requests
\* ------------------------------------------------------------------------
InitCounter ==
    /\ env = NoDispatch.options.env
    /\ minLevel = "info"
    /\ now = 0
    /\ db = 0
    /\ usageLogs = <<>>
    /\ logs = EmptyBag
    /\ req = [r \in Requests |-> IdleRequest]
    /\ dispatch = NoDispatch
    /\ summary = NoSummary
    /\ costCall = NoCostCall
    /\ config = CostTracker(EmptyConfig)
    /\ loggerCall = NoLoggerCall
    /\ authCall = NoAuthCall
    /\ \/ counter = NoCounter
       \/ \E v \in CounterInitials :
             counter = [NoCounter EXCEPT !.rows = <<v>>, !.initial = v]

\* A counter request arrives and POST runs up to its first database await.
CounterPost(r) ==
    /\ counter.reqs[r].pc = "idle"
    /\ \E bodyKind \in CounterBodyKinds, action \in CounterActions, dbOk \in BOOLEAN :
          counter' = [counter EXCEPT
                         !.reqs[r] = CounterPOST(@, bodyKind, action, dbOk)]
    /\ UNCHANGED <<env, minLevel, now, db, usageLogs, logs, req, dispatch, summary, costCall, config, loggerCall, authCall>>

\* The select of request r returns.
CounterSelectOk(r) ==
    /\ counter.reqs[r].pc = "selecting"
    /\ counter' = [counter EXCEPT
                      !.reqs[r] = CounterSelected(@, IF counter.rows = <<>>
                                                     THEN <<>>
                                                     ELSE <<counter.rows[1]>>)]
    /\ UNCHANGED <<env, minLevel, now, db, usageLogs, logs, req, dispatch, summary, costCall, config, loggerCall, authCall>>

\* The update of request r is applied and returns the rows it changed.
CounterUpdateOk(r) ==
    /\ counter.reqs[r].pc = "updating"
    /\ LET updated == CounterUpdate(counter.rows, counter.reqs[r])
       IN  counter' = [counter EXCEPT
                          !.rows = updated,
                          !.reqs[r] = [@ EXCEPT !.pc = "done", !.status = 200,
                                                !.value = updated[1]]]
    /\ UNCHANGED <<env, minLevel, now, db, usageLogs, logs, req, dispatch, summary, costCall, config, loggerCall, authCall>>

\* The select or the update of request r fails.
CounterFail(r) ==
    /\ counter.reqs[r].pc \in {"selecting", "updating"}
    /\ counter' = [counter EXCEPT !.reqs[r] = CounterCatch(@)]
    /\ UNCHANGED <<env, minLevel, now, db, usageLogs, logs, req, dispatch, summary, costCall, config, loggerCall, authCall>>

NextCounter ==
    \/ \E r \in Requests : CounterPost(r)
    \/ \E r \in Requests : CounterSelectOk(r)
    \/ \E r \in Requests : CounterUpdateOk(r)
    \/ \E r \in Requests : CounterFail(r)

SpecCounter == InitCounter /\ [][NextCounter]_vars

\* ------------------------------------------------------------------------
\* Trackers of every configuration, called by MaxReq callers
\* ------------------------------------------------------------------------
\* thresholds given to the constructor: 0, 1.00 USD, 10.00 USD
ConfigThresholds == {0, DollarRow.costUsd, DefaultAlertThreshold}

TrackerConfigs ==
    CostTrackerConfigs(ConfigThresholds)
    \cup {[EmptyConfig EXCEPT !.hasEnabled = TRUE, !.enabled = FALSE]}

InitConfig ==
    /\ env = NoDispatch.options.env
    /\ minLevel = "info"
    /\ now = 0
    /\ db = 1
    /\ usageLogs = [i \in 1..(ThresholdRows + 1) |-> DollarRow]
    /\ logs = EmptyBag
    /\ req = [r \in Requests |-> IdleRequest]
    /\ dispatch = NoDispatch
    /\ summary = NoSummary
    /\ costCall = NoCostCall
    /\ \E given \in TrackerConfigs : config = CostTracker(given)
    /\ loggerCall = NoLoggerCall
    /\ authCall = NoAuthCall
    /\ counter = NoCounter

NextConfig ==
    \/ \E r \in Requests : CallTrack(r)
    \/ \E r \in Requests : InsertOk(r)
    \/ \E r \in Requests : InsertFail(r)
    \/ \E r \in Requests : QueryOk(r)
    \/ \E r \in Requests : QueryFail(r)

SpecConfig == InitConfig /\ [][NextConfig]_vars

\* ------------------------------------------------------------------------
\* getSummary called with every combination of its filters
\* ------------------------------------------------------------------------
\* rows of three users (one row without a user) over the two days
FilterRows ==
    << [DollarRow EXCEPT !.requestId = 1, !.userId = "u1", !.createdAt = 0],
       [DollarRow EXCEPT !.requestId = 2, !.userId = "u2", !.createdAt = 1],
       [DollarRow EXCEPT !.requestId = 3, !.createdAt = 1],
       [DollarRow EXCEPT !.requestId = 4, !.userId = "u1", !.createdAt = 2],
       [DollarRow EXCEPT !.requestId = 5, !.userId = "u2", !.createdAt = 2],
       [DollarRow EXCEPT !.requestId = 6, !.userId = "u1", !.createdAt = LastInstant] >>

FilterDates == {1, 2}
FilterUsers == {NULL, EMPTY, "u1", "u3"}

FilterOptions ==
    {[hasStart |-> hasStart, startDate |-> IF hasStart THEN startDate ELSE 0,
      hasEnd |-> hasEnd, endDate |-> IF hasEnd THEN endDate ELSE 0,
      userId |-> userId] :
        hasStart \in BOOLEAN, startDate \in FilterDates,
        hasEnd \in BOOLEAN, endDate \in FilterDates, userId \in FilterUsers}

InitFilter ==
    /\ env = NoDispatch.options.env
    /\ minLevel = "info"
    /\ now = LastInstant
    /\ db \in {0, 1}
    /\ usageLogs = FilterRows
    /\ logs = EmptyBag
    /\ req = [r \in Requests |-> IdleRequest]
    /\ dispatch = NoDispatch
    /\ summary = NoSummary
    /\ costCall = NoCostCall
    /\ config = CostTracker(EmptyConfig)
    /\ loggerCall = NoLoggerCall
    /\ authCall = NoAuthCall
    /\ counter = NoCounter

\* costTracker.getSummary(options), for any of the filters
GetFilteredSummary ==
    /\ summary.state = "none"
    /\ \E options \in FilterOptions :
          summary' = IF db = 0
                     THEN [NoSummary EXCEPT !.state = "settled", !.options = options,
                                            !.kind = "null"]
                     ELSE [NoSummary EXCEPT !.state = "pending", !.options = options,
                                            !.handle = db, !.select = "pending"]
    /\ UNCHANGED <<env, minLevel, now, db, usageLogs, logs, req, dispatch, costCall, config, loggerCall, authCall, counter>>

NextFilter ==
    \/ GetFilteredSummary
    \/ SummaryOk
    \/ SummaryFail

SpecFilter == InitFilter /\ [][NextFilter]_vars

\* ------------------------------------------------------------------------
\* Properties
\* ------------------------------------------------------------------------
\* the rows of usage_logs written for request r
RowsOf(r) == SelectSeq(usageLogs, LAMBDA row : row.requestId = r)

\* the entries of the console that satisfy P
Logged(P(_)) == \E entry \in BagToSet(logs) : P(entry)

IsUsageLine(entry, r) ==
    entry.type = "llm_call" /\ entry.requestId = r /\ entry.level = "info"

IsInsertError(entry, r) ==
    /\ entry.level = "error"
    /\ entry.message = "Failed to log usage to database"
    /\ entry.requestId = r

\* an optional string is given when it is a non-empty string
Given(s) == s # NULL /\ s # EMPTY

\* the provider and the model a call is specified to resolve to
SpecProvider(o) ==
    IF Given(o.provider) THEN o.provider
    ELSE IF Given(o.env.DEFAULT_LLM_PROVIDER) THEN o.env.DEFAULT_LLM_PROVIDER
    ELSE "openai"

SpecModel(o) ==
    IF Given(o.model) THEN o.model ELSE DEFAULT_MODELS(SpecProvider(o))

\* the environment key of a supported provider
EnvKeyOf(o, provider) ==
    CASE provider = "openai" -> o.env.OPENAI_API_KEY
      [] provider = "gemini" -> o.env.GEMINI_API_KEY

\* C1 (as claimed): a usage row of a request is in usage_logs only once the
\* adapter's onFinish has reported the token totals of that request.
C1_RowOnlyAfterOnFinish ==
    \A i \in 1..Len(usageLogs) :
        req[usageLogs[i].requestId].vendor = "finished"

\* C2 (as claimed): when the vendor call of a request completed and reported
\* usage (p, c, t), the persisted row of the request carries inputTokens = p,
\* outputTokens = c and totalTokens = t.
C2_RowCarriesVendorUsage ==
    \A i \in 1..Len(usageLogs) :
        LET row == usageLogs[i]
            q == req[row.requestId]
        IN  (q.vendor = "finished" /\ q.reported) =>
                /\ row.inputTokens = q.vendorUsage.promptTokens
                /\ row.outputTokens = q.vendorUsage.completionTokens
                /\ row.totalTokens = q.vendorUsage.totalTokens

\* C3 (as claimed): a request whose response future settled made exactly one
\* insert attempt.
C3_ExactlyOneInsertAttempt ==
    \A r \in Requests :
        req[r].pc \in {"inserting", "checking", "done"} => req[r].inserts = 1

\* C3 (amended): a request whose response future resolved made exactly one
\* call of costTracker.track; that call made exactly one insert attempt when
\* the tracker held a database handle and none when it held none; a request
\* whose future has not resolved made no call and no attempt; and usage_logs
\* never holds more rows of a request than attempts were made.
C3_OneTrackOneAttemptIfHandle ==
    \A r \in Requests :
        /\ req[r].pc \in {"inserting", "checking", "done"} =>
              /\ req[r].trackCalls = 1
              /\ req[r].inserts = IF req[r].trackDb # 0 THEN 1 ELSE 0
        /\ req[r].pc \in {"idle", "failed", "streaming"} =>
              /\ req[r].trackCalls = 0
              /\ req[r].inserts = 0
        /\ Len(RowsOf(r)) <= req[r].inserts

C3_Witness ==
    /\ \E r \in Requests :
          req[r].pc = "done" /\ req[r].trackDb = 0 /\ req[r].inserts = 0
    /\ \E r \in Requests :
          req[r].pc = "done" /\ req[r].trackDb # 0 /\ req[r].insert = "failed"

\* C4: streamChat and generateChat, with the resolved provider openai or
\* gemini, fail with the configuration error whenever neither options.apiKey
\* nor the environment key of that provider is set, and have then invoked no
\* adapter.
C4_NoKeyFailsBeforeAdapter ==
    dispatch.fn \in {"streamChat", "generateChat"} =>
        LET o == dispatch.options
            provider == SpecProvider(o)
        IN  (/\ provider \in LLMProviders
             /\ ~Given(o.apiKey)
             /\ ~Given(EnvKeyOf(o, provider))) =>
                /\ dispatch.result.kind = "throw"
                /\ dispatch.result.error = "API key not found"
                /\ dispatch.result.call = NoAdapter

C4_Witness ==
    /\ dispatch.fn = "generateChat"
    /\ SpecProvider(dispatch.options) = "gemini"
    /\ dispatch.options.provider = NULL
    /\ dispatch.options.apiKey = NULL
    /\ dispatch.options.env.GEMINI_API_KEY = EMPTY
    /\ dispatch.options.env.OPENAI_API_KEY = "sk-openai"
    /\ dispatch.result.kind = "throw"
    /\ dispatch.result.call = NoAdapter

\* C5: a result of streamChat carries the provider options.provider if given,
\* else env.DEFAULT_LLM_PROVIDER if given, else openai, and the model
\* options.model if given, else the registry default of that provider.
C5_ResultCarriesResolved ==
    (dispatch.fn = "streamChat" /\ dispatch.result.kind = "ok") =>
        /\ dispatch.result.provider = SpecProvider(dispatch.options)
        /\ dispatch.result.model = SpecModel(dispatch.options)

C5_Witness ==
    /\ dispatch.fn = "streamChat"
    /\ dispatch.result.kind = "ok"
    /\ dispatch.options.provider = NULL
    /\ dispatch.options.model = NULL
    /\ dispatch.options.env.DEFAULT_LLM_PROVIDER = "gemini"
    /\ dispatch.result.provider = "gemini"
    /\ dispatch.result.model = "gemini-1.5-flash"

\* C6: when streamChat, with the resolved provider openai or gemini, invokes
\* an adapter, the key it hands over is options.apiKey if given and otherwise
\* the environment key of the resolved provider, and the adapter invoked is
\* the one of the resolved provider.
C6_KeyOfResolvedProvider ==
    (/\ dispatch.fn = "streamChat"
     /\ dispatch.result.call # NoAdapter
     /\ SpecProvider(dispatch.options) \in LLMProviders) =>
        LET o == dispatch.options
            provider == SpecProvider(o)
        IN  /\ dispatch.result.call.adapter = provider
            /\ dispatch.result.call.apiKey =
                  IF Given(o.apiKey) THEN o.apiKey ELSE EnvKeyOf(o, provider)

C6_Witness ==
    /\ dispatch.fn = "streamChat"
    /\ dispatch.result.kind = "ok"
    /\ dispatch.options.apiKey = EMPTY
    /\ dispatch.options.provider = "gemini"
    /\ dispatch.options.env.OPENAI_API_KEY = "sk-openai"
    /\ dispatch.options.env.GEMINI_API_KEY = "sk-gemini"
    /\ dispatch.result.call.apiKey = "sk-gemini"

\* C7 (as claimed): when the insert of a track call failed, track did not
\* reject, the failure was logged at error level, and the usage line of the
\* call was emitted.
C7_InsertFailureKeepsUsageLine ==
    \A r \in Requests :
        req[r].insert = "failed" =>
            /\ req[r].track # "rejected"
            /\ Logged(LAMBDA entry : IsInsertError(entry, r))
            /\ Logged(LAMBDA entry : IsUsageLine(entry, r))

\* C7 (amended): when the insert of a track call failed, track did not reject
\* and has resolved once the call is over, the failure was logged at error
\* level, and the usage line of the call was emitted exactly when the
\* logger's minimum level is debug or info.
C7_InsertFailureCaught ==
    \A r \in Requests :
        req[r].insert = "failed" =>
            /\ req[r].track # "rejected"
            /\ req[r].pc = "done" => req[r].track = "resolved"
            /\ Logged(LAMBDA entry : IsInsertError(entry, r))
            /\ Logged(LAMBDA entry : IsUsageLine(entry, r))
                  <=> minLevel \in {"debug", "info"}

C7_Witness ==
    \E r \in Requests :
        /\ req[r].insert = "failed"
        /\ req[r].pc = "done"
        /\ req[r].track = "resolved"
        /\ minLevel = "warn"
        /\ ~Logged(LAMBDA entry : IsUsageLine(entry, r))

\* C8 (as claimed): the row of a request whose vendor call failed after
\* streaming began has status error and an error message.
C8_VendorFailureRecordedAsError ==
    \A i \in 1..Len(usageLogs) :
        req[usageLogs[i].requestId].vendor = "failed" =>
            /\ usageLogs[i].status = "error"
            /\ usageLogs[i].errorMessage # NULL

C10_FailureOnlyConfigOrSetup ==
    \A r \in Requests :
        req[r].status \notin {0, 200} =>
            req[r].cause \in {"API key not found", "adapter error"}

\* C10 (amended): a request is answered with a failure only for a body that
\* is no JSON or that the schema rejects, a failure to obtain the
\* environment, a configuration error or an adapter setup error, and is
\* answered with 200 otherwise; a request whose database acquisition, usage
\* insert or threshold check failed has the response it would have had.
C10_AccountingFailuresInvisible ==
    \A r \in Requests :
        /\ req[r].status \in {0, 200, 400, 500}
        /\ req[r].status = 200 <=> req[r].pc \notin {"idle", "failed"}
        /\ req[r].status = 400 <=> req[r].cause = "Invalid request"
        /\ req[r].status = 500 <=>
              req[r].cause \in {"malformed body", "no environment",
                                "API key not found", "adapter error"}
        /\ (req[r].insert = "failed" \/ req[r].query = "failed") =>
              req[r].status = 200

C10_Witness ==
    \E r \in Requests :
        /\ ~req[r].dbOk
        /\ req[r].status = 200
        /\ req[r].insert = "failed"
        /\ req[r].query = "failed"
        /\ req[r].pc = "done"

\* the number of entries of a console that satisfy P
CountLogged(console, P(_)) ==
    LET S == {entry \in BagToSet(console) : P(entry)}
    IN  BagCardinality([entry \in S |-> CopiesIn(entry, console)])

WarningsIn(console) == CountLogged(console, IsThresholdWarning)

\* the step in which the track call of r ends
TrackEnds(r) == req[r].pc # "done" /\ req'[r].pc = "done"

\* the rows created on the day of instant t or later
CostSince(t) == SumCost(RowsSince(usageLogs, Midnight(t)))

RECURSIVE SumTokens(_)
SumTokens(rows) ==
    IF rows = <<>> THEN 0 ELSE Head(rows).totalTokens + SumTokens(Tail(rows))

\* the sum of the subtotals of the keys of a byProvider / byModel map
RECURSIVE SumGroups(_, _)
SumGroups(map, keys) ==
    IF keys = {}
    THEN NoGroup
    ELSE LET k == CHOOSE key \in keys : TRUE
             rest == SumGroups(map, keys \ {k})
         IN  [cost |-> map[k].cost + rest.cost,
              tokens |-> map[k].tokens + rest.tokens,
              requests |-> map[k].requests + rest.requests]

\* C11: the route returns its streaming response without waiting for the
\* usage tracking: a request whose track call has not yet been made, or whose
\* insert or threshold check is pending, has its 200 response returned, and
\* track is called for no request whose response was not returned.
C11_ResponseBeforeTrack ==
    \A r \in Requests :
        /\ req[r].pc = "streaming" =>
              /\ req[r].status = 200
              /\ req[r].trackCalls = 0
              /\ req[r].insert = "none" /\ req[r].query = "none"
        /\ req[r].pc \in {"inserting", "checking"} => req[r].status = 200
        /\ req[r].trackCalls > 0 => req[r].status = 200
        /\ req[r].status # 200 =>
              req[r].inserts = 0 /\ req[r].insert = "none" /\ req[r].query = "none"

C11_Witness ==
    \E r \in Requests :
        /\ req[r].status = 200
        /\ req[r].vendor = "running"
        /\ ~req[r].cancelled
        /\ req[r].pc = "inserting"
        /\ req[r].insert = "pending"

C13_WarnsIffOverThreshold ==
    [][\A r \in Requests :
          (TrackEnds(r) /\ req[r].insert = "ok") =>
              WarningsIn(logs') - WarningsIn(logs) =
                  IF CostSince(now) > DefaultAlertThreshold THEN 1 ELSE 0]_vars

\* C13 (amended): a track call emits one threshold warning, carrying the
\* total and the threshold, when the tracker holds a database handle, the
\* daily select succeeds, the logger's minimum level is not error, and the
\* costUsd of the rows the select returns (the rows of the table at that
\* moment created at or after the local midnight of the day on which the
\* check began) adds up to more than the threshold; it emits none otherwise.
C13_WarnsOnceIfSelectSeesExcess ==
    [][\A r \in Requests :
          TrackEnds(r) =>
              LET dailyCost == SumCost(RowsSince(usageLogs, req[r].today))
                  warns == /\ req[r].pc = "checking"
                           /\ req'[r].query = "ok"
                           /\ dailyCost > DefaultAlertThreshold
                           /\ minLevel # "error"
              IN  /\ WarningsIn(logs') - WarningsIn(logs) = IF warns THEN 1 ELSE 0
                  /\ warns =>
                        \E entry \in BagToSet(logs') :
                            /\ IsThresholdWarning(entry)
                            /\ entry.dailyCost = dailyCost
                            /\ entry.threshold = DefaultAlertThreshold
                            /\ CopiesIn(entry, logs') = CopiesIn(entry, logs) + 1]_vars

C13_Witness ==
    \E r \in Requests :
        /\ req[r].pc = "done"
        /\ req[r].insert = "ok"
        /\ req[r].query = "ok"
        /\ Len(usageLogs) = ThresholdRows + 2
        /\ usageLogs[ThresholdRows + 2].requestId = r
        /\ WarningsIn(logs) = 1
        /\ \E entry \in BagToSet(logs) :
              /\ IsThresholdWarning(entry)
              /\ entry.dailyCost >= (ThresholdRows + 1) * DollarRow.costUsd
              /\ entry.threshold = DefaultAlertThreshold

C16_SummaryAddsUp ==
    summary.kind = "summary" =>
        LET rows == summary.selected
            v == summary.value
            totals == [cost |-> v.totalCost, tokens |-> v.totalTokens,
                       requests |-> v.totalRequests]
        IN  /\ v.totalRequests = Len(rows)
            /\ v.totalCost = SumCost(rows)
            /\ v.totalTokens = SumTokens(rows)
            /\ SumGroups(v.byProvider, DOMAIN v.byProvider) = totals
            /\ SumGroups(v.byModel, DOMAIN v.byModel) = totals

\* C17: getSummary never throws: a call that has settled returned null or a
\* summary; it returned null when the tracker held no database handle and
\* when the select failed, and a summary when the select succeeded.
C17_SummaryNeverThrows ==
    summary.state = "settled" =>
        /\ summary.kind \in {"null", "summary"}
        /\ summary.handle = 0 => summary.kind = "null" /\ summary.select = "none"
        /\ summary.select = "failed" => summary.kind = "null"
        /\ summary.select = "ok" <=> summary.kind = "summary"

C17_Witness ==
    /\ summary.state = "settled"
    /\ summary.handle # 0
    /\ summary.select = "failed"
    /\ summary.kind = "null"

\* C18: usage rows are never modified and never deleted: a step leaves
\* usage_logs as it is or appends the one row of an insert that succeeds in
\* that step, and no step of getSummary changes usage_logs.
C18_RowsOnlyAppended ==
    [][/\ \/ usageLogs' = usageLogs
          \/ \E r \in Requests :
                /\ req[r].pc = "inserting"
                /\ req'[r].insert = "ok"
                /\ usageLogs' = Append(usageLogs, req[r].row)
       /\ summary' # summary => usageLogs' = usageLogs]_vars

C18_Witness ==
    /\ now >= DayLength
    /\ Len(usageLogs) = Len(MixedRows) + MaxReq
    /\ SubSeq(usageLogs, 1, Len(MixedRows)) = MixedRows
    /\ usageLogs[Len(usageLogs)].createdAt >= DayLength
    /\ summary.kind = "summary"
    /\ Len(summary.selected) = Len(MixedRows)

\* C19 (as claimed): calculateCost(model, usage) is inputTokens times the
\* input price plus outputTokens times the output price of the model, over
\* 1000, with the prices of gpt-4o-mini for a model that is not in the
\* registry; two calls with the same arguments return the same; the result
\* is not negative, and it is 0 for the usage {0, 0, 0}.
C19_CostByRegistryOrFallback ==
    costCall.fn = "calculateCost" =>
        LET price == IF costCall.model \in RegistryModels
                     THEN MODEL_PRICING(costCall.model)
                     ELSE MODEL_PRICING("gpt-4o-mini")
        IN  /\ costCall.cost = costCall.usage.inputTokens * price.input
                               + costCall.usage.outputTokens * price.output
            /\ costCall.again = costCall.cost
            /\ costCall.cost >= 0
            /\ costCall.usage = ZeroUsage => costCall.cost = 0

\* C20: the default model of each supported provider is a non-empty model
\* identifier that has an entry in the pricing registry.
C20_DefaultModelIsPriced ==
    costCall.fn = "DEFAULT_MODELS" =>
        /\ costCall.provider \in LLMProviders
        /\ costCall.defaultModel # NULL
        /\ costCall.defaultModel # EMPTY
        /\ costCall.defaultModel \in RegistryModels
        /\ MODEL_PRICING(costCall.defaultModel).input > 0
        /\ MODEL_PRICING(costCall.defaultModel).output > 0

C20_Witness ==
    /\ costCall.fn = "DEFAULT_MODELS"
    /\ costCall.provider = "gemini"
    /\ costCall.defaultModel = "gemini-1.5-flash"

LevelOrder == <<"debug", "info", "warn", "error">>

\* the place of a level in the order
LevelRank(level) == CHOOSE i \in 1..Len(LevelOrder) : LevelOrder[i] = level

\* level is at or above min in the order; nothing is at or above a minimum
\* that is no level of the order
AtOrAbove(level, min) ==
    /\ \E i \in 1..Len(LevelOrder) : LevelOrder[i] = min
    /\ LevelRank(level) >= LevelRank(min)

\* C22: a call of debug, info, warn or error writes one entry of its level
\* exactly when that level is at or above the logger's minimum level in the
\* order debug < info < warn < error, and writes nothing otherwise; llm
\* writes as an info call does, and its entry carries type "llm_call" next
\* to the fields of the context it was given.
C22_LoggerFilters ==
    [][loggerCall'.calls = loggerCall.calls + 1 =>
          LET fn == loggerCall'.fn
              level == IF fn = "llm" THEN "info" ELSE fn
          IN  IF AtOrAbove(level, minLevel)
              THEN \E entry \in BagToSet(logs') :
                      /\ logs' = logs (+) SetToBag({entry})
                      /\ entry.level = level
                      /\ fn = "llm" =>
                            /\ entry.type = "llm_call"
                            /\ entry.message = "LLM API call completed"
                            /\ entry.requestId = LlmContext.requestId
                            /\ entry.provider = LlmContext.provider
                            /\ entry.model = LlmContext.model
                            /\ entry.usage = LlmContext.usage
                            /\ entry.costUsd = LlmContext.costUsd
                            /\ entry.latencyMs = LlmContext.latencyMs
                            /\ entry.status = LlmContext.status
                            /\ entry.endpoint = LlmContext.endpoint
                      /\ fn # "llm" => entry.type # "llm_call"
              ELSE logs' = logs]_vars

\* a logger of minimum level info that dropped a debug message and then
\* wrote the line of an llm call
C22_Witness ==
    /\ minLevel = "info"
    /\ loggerCall.calls = 2
    /\ loggerCall.fn = "llm"
    /\ BagCardinality(logs) = 1
    /\ \E entry \in BagToSet(logs) : entry.type = "llm_call" /\ entry.level = "info"

\* the pathname starts with /dashboard or with /api/protected
OnProtectedPath(pathname) ==
    \/ /\ Len(pathname) >= 2
       /\ pathname[1] = "/" /\ pathname[2] = "dashboard"
    \/ /\ Len(pathname) >= 4
       /\ pathname[1] = "/" /\ pathname[2] = "api"
       /\ pathname[3] = "/" /\ pathname[4] = "protected"

IncludedRows(options) ==
    SelectSeq(usageLogs,
              LAMBDA row :
                  /\ (options.hasStart => row.createdAt >= options.startDate)
                  /\ (options.hasEnd => row.createdAt <= options.endDate)
                  /\ (Given(options.userId) => row.userId = options.userId))

\* C24: the rows a summary is computed from are exactly the rows of the
\* table with createdAt >= startDate when a start date is given,
\* createdAt <= endDate when an end date is given, and the userId of the
\* filter when a user is given; with no option that is every row.
C24_SummaryFilter ==
    summary.kind = "summary" =>
        /\ summary.selected = IncludedRows(summary.options)
        /\ summary.value.totalRequests = Len(IncludedRows(summary.options))
        /\ summary.options = NoSummaryOptions => summary.selected = usageLogs

\* a summary of the rows of user u1 created between two given dates, both
\* of them the instant a row was created at
C24_Witness ==
    /\ summary.kind = "summary"
    /\ summary.options.hasStart /\ summary.options.startDate = 1
    /\ summary.options.hasEnd /\ summary.options.endDate = 2
    /\ summary.options.userId = "u1"
    /\ Len(summary.selected) = 1
    /\ summary.selected[1].createdAt = 2

IsCheckError(entry) ==
    entry.level = "error" /\ entry.message = "Failed to check daily threshold"

\* C25: when the daily-cost select of a track call fails, the call writes
\* one error entry and resolves: it does not reject, it writes no threshold
\* warning, and the table keeps every row, the row of the call included.
C25_QueryFailureContained ==
    [][\A r \in Requests :
          req[r].query = "pending" /\ req'[r].query = "failed" =>
              /\ req'[r].pc = "done"
              /\ req'[r].track = "resolved"
              /\ CountLogged(logs', IsCheckError) = CountLogged(logs, IsCheckError) + 1
              /\ WarningsIn(logs') = WarningsIn(logs)
              /\ usageLogs' = usageLogs
              /\ req[r].insert = "ok" => Len(RowsOf(r)) = 1]_vars

\* a call whose insert succeeded and whose select failed, on a table that
\* is over the threshold
C25_Witness ==
    \E r \in Requests :
        /\ req[r].insert = "ok"
        /\ req[r].query = "failed"
        /\ req[r].track = "resolved"
        /\ Len(RowsOf(r)) = 1
        /\ Logged(IsCheckError)
        /\ CostSince(now) > DefaultAlertThreshold
        /\ WarningsIn(logs) = 0

C27_ResultNamesServingProvider ==
    (dispatch.fn = "streamChat" /\ dispatch.result.kind = "ok") =>
        /\ dispatch.result.provider \in LLMProviders
        /\ dispatch.result.call.adapter = dispatch.result.provider
        /\ dispatch.result.provider \in LLMProviders =>
              dispatch.result.call.apiKey =
                  IF Given(dispatch.options.apiKey)
                  THEN dispatch.options.apiKey
                  ELSE EnvKeyOf(dispatch.options, dispatch.result.provider)
        /\ dispatch.result.model # NULL

\* the cost of the rows of the table created on the day of the clock
TodayCost ==
    SumCost(SelectSeq(usageLogs,
                      LAMBDA row : row.createdAt >= now - (now % DayLength)))

\* every track call made has ended, with its insert and its select succeeded
AllCallsSucceeded ==
    /\ \A r \in Requests : req[r].pc \in {"idle", "done"}
    /\ \E r \in Requests : req[r].pc = "done"
    /\ \A r \in Requests :
          req[r].pc = "done" => req[r].insert = "ok" /\ req[r].query = "ok"

\* C28 as claimed: once concurrent track calls have all ended with their
\* inserts and selects succeeded, a table whose rows of today cost more
\* than the threshold means that some call wrote the warning.
C28_SomeCallWarns ==
    (AllCallsSucceeded /\ TodayCost > DefaultAlertThreshold) =>
        WarningsIn(logs) >= 1

\* C28: the select of a call is issued only once the insert of the call has
\* settled; and once concurrent track calls have all ended with their
\* inserts and selects succeeded, a table whose rows of today cost more
\* than the threshold means that some call wrote the warning, provided the
\* logger lets warn entries through.
C28_SomeCallWarnsUnlessFiltered ==
    /\ \A r \in Requests :
          req[r].query # "none" => req[r].insert \in {"ok", "failed"}
    /\ (AllCallsSucceeded /\ TodayCost > DefaultAlertThreshold
        /\ minLevel \in {"debug", "info", "warn"}) =>
            WarningsIn(logs) >= 1

\* two calls that ran side by side on a table at the threshold, both ended
C28_Witness ==
    /\ \A r \in Requests :
          req[r].pc = "done" /\ req[r].insert = "ok" /\ req[r].query = "ok"
    /\ Len(usageLogs) = ThresholdRows + MaxReq
    /\ TodayCost > DefaultAlertThreshold
    /\ minLevel = "warn"
    /\ WarningsIn(logs) >= 1

\* C29: a tracker constructed with alertThreshold 0 never issues the
\* daily-cost select and never writes the warning, whatever the table
\* holds; a tracker constructed without alertThreshold has the threshold
\* 10.0 USD.
C29_ZeroThresholdSkipsCheck ==
    /\ (config.given.hasThreshold /\ config.given.alertThreshold = 0) =>
          /\ config.alertThreshold = 0
          /\ \A r \in Requests :
                req[r].query = "none" /\ req[r].pc # "checking"
          /\ WarningsIn(logs) = 0
    /\ ~config.given.hasThreshold =>
          config.alertThreshold = 10 * DollarRow.costUsd

\* a call of a tracker with threshold 0 that inserted its row into a table
\* of more than 10.00 USD and ended without a select
C29_Witness ==
    /\ config.given.hasThreshold /\ config.given.alertThreshold = 0
    /\ TodayCost > 10 * DollarRow.costUsd
    /\ \E r \in Requests :
          /\ req[r].pc = "done"
          /\ req[r].insert = "ok"
          /\ req[r].query = "none"
          /\ Len(RowsOf(r)) = 1

\* the requests answered with success whose action was the given one
Succeeded(action) ==
    {r \in Requests : counter.reqs[r].status = 200 /\ counter.reqs[r].action = action}

\* C30: once the concurrent POST requests of the counter route have all been
\* answered, the stored value of the default counter is its initial value
\* plus the number of increments answered with success minus the number of
\* decrements answered with success.
C30_NoUpdateLost ==
    (/\ \A r \in Requests : counter.reqs[r].pc \in {"idle", "done"}
     /\ Len(counter.rows) > 0) =>
        counter.rows[1] = counter.initial
                          + Cardinality(Succeeded("increment"))
                          - Cardinality(Succeeded("decrement"))


====
